---- MODULE Spec2Model ----
(***************************************************************************)
(* Model of boleto.ts: the modulo-11 check digit (helpers.ts), the slip    *)
(* number decoder/validator (boleto.ts) and its derived accessors, the     *)
(* Interleaved 2 of 5 encoder (itf.ts) and the SVG renderer (svg.ts).      *)
(*                                                                         *)
(* A JavaScript string is a sequence of one-character strings; a digit     *)
(* character is one of "0".."9".                                           *)
(***************************************************************************)
EXTENDS Integers, Sequences, FiniteSets, TLC

VARIABLES
  boleto,    \* boleto[i]: the instance held in slot i, or NoBoleto
  attempt,   \* attempt[i]: the constructor call made for slot i, or NoCall
  result,    \* the last accessor call and the value it returned, or NoCall
  arg,       \* the argument of modulo11, of encode or of new SVG
  ret,       \* the value the last direct call or render() returned
  svg,       \* the SVG instance, or NoSVG
  document,  \* document[id]: the children of the element with that id
  currencyObject  \* the fields of the object BRL_CURRENCY, as they are now

vars == <<boleto, attempt, result, arg, ret, svg, document, currencyObject>>

NoBoleto == [kind |-> "none"]
NoCall == [op |-> "none"]
NoError == [name |-> "none"]
NoSVG == [kind |-> "none"]

----------------------------------------------------------------------------
(* Characters and strings *)

DigitChars == <<"0","1","2","3","4","5","6","7","8","9">>

Digit == {DigitChars[k] : k \in 1..10}

\* /\d/ (no unicode flag): the ten ASCII digits
IsDigit(c) == c \in Digit

\* parseInt(c, 10) of a one-character digit string
DigitVal(c) == CHOOSE n \in 0..9 : DigitChars[n + 1] = c

\* Number.prototype.toString of a small non-negative integer
RECURSIVE NumberToString(_)
NumberToString(n) ==
  IF n < 10 THEN <<DigitChars[n + 1]>>
  ELSE NumberToString(n \div 10) \o <<DigitChars[(n % 10) + 1]>>

\* Array.prototype.reverse
Reverse(s) == [k \in 1..Len(s) |-> s[Len(s) + 1 - k]]

\* String.prototype.substring(from, to), 0-indexed, to exclusive, clamped
Substring(s, from, to) ==
  LET t == IF to > Len(s) THEN Len(s) ELSE to
  IN  IF from >= t THEN <<>> ELSE SubSeq(s, from + 1, t)

AllDigits(s) == \A k \in 1..Len(s) : IsDigit(s[k])

----------------------------------------------------------------------------
(* helpers.ts: modulo11 *)

\* the loop of modulo11: sum += ((i % 8) + 2) * parseInt(digits[i], 10)
RECURSIVE WeightedSum(_, _, _)
WeightedSum(digits, i, sum) ==
  IF i < Len(digits)
  THEN WeightedSum(digits, i + 1, sum + ((i % 8) + 2) * DigitVal(digits[i + 1]))
  ELSE sum

\* digits.reverse() left out
modulo11_noReverse(number) ==
  LET sum == WeightedSum(number, 0, 0)
      r == (11 - (sum % 11)) % 10
  IN  IF r = 0 THEN 1 ELSE r

\* "|| 1" left out
modulo11_noFallback(number) ==
  LET digits == Reverse(number)
      sum == WeightedSum(digits, 0, 0)
  IN  (11 - (sum % 11)) % 10

modulo11(number) ==
  LET digits == Reverse(number)
      sum == WeightedSum(digits, 0, 0)
      r == (11 - (sum % 11)) % 10
  IN  IF r = 0 THEN 1 ELSE r

\* digits = number: the reverse acts on the array of the caller
modulo11OfArray_inPlace(number) ==
  [value |-> modulo11(number), number |-> Reverse(number)]

\* modulo11 given an array: digits = [...number] is a copy, so the reverse
\* acts on the copy; the value returned, and the array of the caller after
\* the call
modulo11OfArray(number) ==
  [value |-> modulo11(number), number |-> number]

----------------------------------------------------------------------------
(* boleto.ts: constants *)

BANK_SLIP_NUMBER_LENGTH == 47
BARCODE_CHECKSUM_POSITION == 4
BARCODE_CURRENCY_POSITION == 3

\* Times are whole numbers of TimeUnit milliseconds: BOLETO_EPOCH
\* (876236400000) and MILLISECONDS_PER_DAY (86400000) are multiples of it,
\* and so is every sum epoch + days * day.
TimeUnit == 100000
BOLETO_EPOCH == 8762364
MILLISECONDS_PER_DAY == 864

Null == [kind |-> "null"]

BRL_CURRENCY ==
  [kind |-> "Currency", code |-> <<"B","R","L">>, symbol |-> <<"R","$">>,
   decimal |-> <<",">>]

\* the object literal BRL_CURRENCY is initialized with; currency() hands
\* out the object itself, whose fields a caller can assign to

\* the keys of BANK_CODES, as strings of three digit characters
BankCodeKeys ==
  { <<"0","0","1">>, <<"0","0","7">>, <<"0","3","3">>, <<"0","6","9">>,
    <<"0","7","7">>, <<"1","0","2">>, <<"1","0","4">>, <<"1","4","0">>,
    <<"1","9","7">>, <<"2","0","8">>, <<"2","1","2">>, <<"2","3","7">>,
    <<"2","6","0">>, <<"3","4","1">>, <<"3","8","9">>, <<"4","2","2">>,
    <<"5","0","5">>, <<"6","3","3">>, <<"6","5","2">>, <<"7","3","5">>,
    <<"7","3","9">>, <<"7","4","5">> }

\* BANK_CODES: Record<string, string>
BANK_CODES == [code \in BankCodeKeys |->
  CASE code = <<"0","0","1">> -> "Banco do Brasil"
    [] code = <<"0","0","7">> -> "BNDES"
    [] code = <<"0","3","3">> -> "Santander"
    [] code = <<"0","6","9">> -> "Crefisa"
    [] code = <<"0","7","7">> -> "Banco Inter"
    [] code = <<"1","0","2">> -> "XP Investimentos"
    [] code = <<"1","0","4">> -> "Caixa Econômica Federal"
    [] code = <<"1","4","0">> -> "Easynvest"
    [] code = <<"1","9","7">> -> "Stone"
    [] code = <<"2","0","8">> -> "BTG Pactual"
    [] code = <<"2","1","2">> -> "Banco Original"
    [] code = <<"2","3","7">> -> "Bradesco"
    [] code = <<"2","6","0">> -> "Nu Pagamentos"
    [] code = <<"3","4","1">> -> "Itaú"
    [] code = <<"3","8","9">> -> "Banco Mercantil do Brasil"
    [] code = <<"4","2","2">> -> "Banco Safra"
    [] code = <<"5","0","5">> -> "Credit Suisse"
    [] code = <<"6","3","3">> -> "Banco Rendimento"
    [] code = <<"6","5","2">> -> "Itaú Unibanco"
    [] code = <<"7","3","5">> -> "Banco Neon"
    [] code = <<"7","3","9">> -> "Banco Cetelem"
    [] code = <<"7","4","5">> -> "Citibank" ]


----------------------------------------------------------------------------
(* boleto.ts: class Boleto *)

\* new BoletoValidationError(message, bankSlipNumber)
BoletoValidationError(message, bankSlipNumber) ==
  [name |-> "BoletoValidationError", message |-> message,
   bankSlipNumber |-> bankSlipNumber]

\* the g flag left out: only the first non-digit goes
StripNonDigits_first(s) ==
  IF \E k \in 1..Len(s) : ~IsDigit(s[k])
  THEN LET k == CHOOSE k \in 1..Len(s) :
                  ~IsDigit(s[k]) /\ \A m \in 1..(k - 1) : IsDigit(s[m])
       IN  SubSeq(s, 1, k - 1) \o SubSeq(s, k + 1, Len(s))
  ELSE s

\* bankSlipNumber.replace(/[^\d]/g, '')
StripNonDigits(s) == SelectSeq(s, IsDigit)

\* the groups put back in printed order, '$1$2$3$4$5'
barcode_printedOrder(bankSlipNumber) ==
  IF Len(bankSlipNumber) = 47 /\ AllDigits(bankSlipNumber)
  THEN SubSeq(bankSlipNumber, 1, 9) \o SubSeq(bankSlipNumber, 11, 20) \o
       SubSeq(bankSlipNumber, 22, 31) \o SubSeq(bankSlipNumber, 33, 47)
  ELSE bankSlipNumber

\* barcode(): a string the pattern does not match is returned as it is
barcode(bankSlipNumber) ==
  IF Len(bankSlipNumber) = 47 /\ AllDigits(bankSlipNumber)
  THEN LET g1 == SubSeq(bankSlipNumber, 1, 4)
           g2 == SubSeq(bankSlipNumber, 5, 9)
           g3 == SubSeq(bankSlipNumber, 11, 20)
           g4 == SubSeq(bankSlipNumber, 22, 31)
           g5 == SubSeq(bankSlipNumber, 33, 47)
       IN  g1 \o g5 \o g2 \o g3 \o g4
  ELSE bankSlipNumber

\* Array.prototype.splice(start, 1): the removed elements
SpliceRemoved(a, start) ==
  IF start < Len(a) THEN <<a[start + 1]>> ELSE <<>>

\* Array.prototype.splice(start, 1): the array that is left
SpliceRest(a, start) ==
  IF start < Len(a)
  THEN SubSeq(a, 1, start) \o SubSeq(a, start + 2, Len(a))
  ELSE a

\* the check digit taken one place to the right
valid_wrongPosition(bankSlipNumber) ==
  IF Len(bankSlipNumber) # BANK_SLIP_NUMBER_LENGTH THEN FALSE
  ELSE LET barcodeDigits == barcode(bankSlipNumber)
           checksum == SpliceRemoved(barcodeDigits, 5)
           rest == SpliceRest(barcodeDigits, 5)
       IN  NumberToString(modulo11(rest)) = checksum

\* the check digit of the first group examined too: modulo 10 of the
\* nine digits before it, weights 2 and 1 from the right
valid_groupCheck(bankSlipNumber) ==
  IF Len(bankSlipNumber) # BANK_SLIP_NUMBER_LENGTH THEN FALSE
  ELSE LET barcodeDigits == barcode(bankSlipNumber)
           checksum == SpliceRemoved(barcodeDigits, BARCODE_CHECKSUM_POSITION)
           rest == SpliceRest(barcodeDigits, BARCODE_CHECKSUM_POSITION)
           d(k) == DigitVal(bankSlipNumber[k])
           m(k) == IF k % 2 = 0 THEN d(k)
                   ELSE IF 2 * d(k) > 9 THEN 2 * d(k) - 9 ELSE 2 * d(k)
           sum == m(1) + m(2) + m(3) + m(4) + m(5) + m(6) + m(7) + m(8) + m(9)
       IN  /\ NumberToString(modulo11(rest)) = checksum
           /\ (10 - (sum % 10)) % 10 = d(10)

valid(bankSlipNumber) ==
  IF Len(bankSlipNumber) # BANK_SLIP_NUMBER_LENGTH THEN FALSE
  ELSE LET barcodeDigits == barcode(bankSlipNumber)
           checksum == SpliceRemoved(barcodeDigits, BARCODE_CHECKSUM_POSITION)
           rest == SpliceRest(barcodeDigits, BARCODE_CHECKSUM_POSITION)
       IN  NumberToString(modulo11(rest)) = checksum

\* the validity test left out
Constructor_noThrow(input) ==
  [threw |-> FALSE, bankSlipNumber |-> StripNonDigits(input),
   error |-> NoError]

\* the error carries the string as the caller gave it
Constructor_rawInput(input) ==
  LET bankSlipNumber == StripNonDigits(input)
  IN  IF ~valid(bankSlipNumber)
      THEN [threw |-> TRUE, bankSlipNumber |-> bankSlipNumber,
            error |-> BoletoValidationError("Invalid bank slip number",
                                            input)]
      ELSE [threw |-> FALSE, bankSlipNumber |-> bankSlipNumber,
            error |-> NoError]

\* the constructor: the stored field, and the error thrown if any
Constructor(input) ==
  LET bankSlipNumber == StripNonDigits(input)
  IN  IF ~valid(bankSlipNumber)
      THEN [threw |-> TRUE, bankSlipNumber |-> bankSlipNumber,
            error |-> BoletoValidationError("Invalid bank slip number",
                                            bankSlipNumber)]
      ELSE [threw |-> FALSE, bankSlipNumber |-> bankSlipNumber,
            error |-> NoError]

number(bankSlipNumber) == bankSlipNumber

\* the second group taken as five digits and the third as six
prettyNumber_shifted(bankSlipNumber) ==
  IF Len(bankSlipNumber) = 47 /\ AllDigits(bankSlipNumber)
  THEN SubSeq(bankSlipNumber, 1, 5) \o <<".">> \o
       SubSeq(bankSlipNumber, 6, 10) \o <<" ">> \o
       SubSeq(bankSlipNumber, 11, 16) \o <<".">> \o
       SubSeq(bankSlipNumber, 17, 21) \o <<" ">> \o
       SubSeq(bankSlipNumber, 22, 26) \o <<".">> \o
       SubSeq(bankSlipNumber, 27, 32) \o <<" ">> \o
       SubSeq(bankSlipNumber, 33, 33) \o <<" ">> \o
       SubSeq(bankSlipNumber, 34, 47)
  ELSE bankSlipNumber

\* prettyNumber(): a string the pattern does not match is returned as it is
prettyNumber(bankSlipNumber) ==
  IF Len(bankSlipNumber) = 47 /\ AllDigits(bankSlipNumber)
  THEN SubSeq(bankSlipNumber, 1, 5) \o <<".">> \o
       SubSeq(bankSlipNumber, 6, 10) \o <<" ">> \o
       SubSeq(bankSlipNumber, 11, 15) \o <<".">> \o
       SubSeq(bankSlipNumber, 16, 21) \o <<" ">> \o
       SubSeq(bankSlipNumber, 22, 26) \o <<".">> \o
       SubSeq(bankSlipNumber, 27, 32) \o <<" ">> \o
       SubSeq(bankSlipNumber, 33, 33) \o <<" ">> \o
       SubSeq(bankSlipNumber, 34, 47)
  ELSE bankSlipNumber

\* "?? 'Unknown'" left out
bank_noFallback(bankSlipNumber) ==
  LET bankCode == Substring(barcode(bankSlipNumber), 0, 3)
  IN  IF bankCode \in DOMAIN BANK_CODES THEN BANK_CODES[bankCode]
      ELSE "undefined"

bank(bankSlipNumber) ==
  LET bankCode == Substring(barcode(bankSlipNumber), 0, 3)
  IN  IF bankCode \in DOMAIN BANK_CODES THEN BANK_CODES[bankCode]
      ELSE "Unknown"

\* parseInt(s, 10) of a string of decimal digits
RECURSIVE ParseInt(_)
ParseInt(s) ==
  IF s = <<>> THEN 0
  ELSE 10 * ParseInt(SubSeq(s, 1, Len(s) - 1)) + DigitVal(s[Len(s)])

\* s[k], 0-indexed: undefined past the end
CharAt(s, k) == IF k < Len(s) THEN <<s[k + 1]>> ELSE <<>>

\* every result is the descriptor
currency_alwaysBRL(bankSlipNumber) == BRL_CURRENCY

currency(bankSlipNumber) ==
  LET currencyCode == CharAt(barcode(bankSlipNumber), BARCODE_CURRENCY_POSITION)
  IN  IF currencyCode = <<"9">> THEN currencyObject ELSE Null

\* the currency digit returned in place of the check digit
checksum_wrongPosition(bankSlipNumber) ==
  CharAt(barcode(bankSlipNumber), BARCODE_CURRENCY_POSITION)

checksum(bankSlipNumber) ==
  CharAt(barcode(bankSlipNumber), BARCODE_CHECKSUM_POSITION)

\* new Date(time)
Date(time) == [kind |-> "Date", time |-> time]

\* the field taken one digit short
expirationDate_wrongSlice(bankSlipNumber) ==
  LET days == ParseInt(Substring(barcode(bankSlipNumber), 5, 8))
  IN  Date(BOLETO_EPOCH + days * MILLISECONDS_PER_DAY)

\* the days counted back from the epoch
expirationDate_minus(bankSlipNumber) ==
  LET days == ParseInt(Substring(barcode(bankSlipNumber), 5, 9))
  IN  Date(BOLETO_EPOCH - days * MILLISECONDS_PER_DAY)

expirationDate(bankSlipNumber) ==
  LET refDate == Date(BOLETO_EPOCH)
      days == ParseInt(Substring(barcode(bankSlipNumber), 5, 9))
  IN  Date(refDate.time + days * MILLISECONDS_PER_DAY)

\* (n / 100.0).toFixed(2) of an integer n of at most ten digits, given as
\* its decimal digits.  The double nearest n / 100 is within 2^-26 of it,
\* so the hundredth nearest the double is n itself: the result is the
\* digits of n div 100, a point, and n mod 100 on two digits.
HundredthsToFixed2(digits) ==
  LET n == Len(digits)
      whole == ParseInt(Substring(digits, 0, n - 2))
      cents == ParseInt(Substring(digits, IF n > 2 THEN n - 2 ELSE 0, n))
  IN  NumberToString(whole) \o <<".">> \o
      <<DigitChars[(cents \div 10) + 1], DigitChars[(cents % 10) + 1]>>

\* the field taken one digit to the right
amount_wrongSlice(bankSlipNumber) ==
  HundredthsToFixed2(Substring(barcode(bankSlipNumber), 10, 20))

amount(bankSlipNumber) ==
  LET amountStr == Substring(barcode(bankSlipNumber), 9, 19)
  IN  HundredthsToFixed2(amountStr)

\* String.prototype.replace(pattern, replacement) with a string pattern of
\* one character: the first occurrence only
ReplaceFirst(s, c, replacement) ==
  IF \E k \in 1..Len(s) : s[k] = c
  THEN LET k == CHOOSE k \in 1..Len(s) :
                  s[k] = c /\ \A m \in 1..(k - 1) : s[m] # c
       IN  SubSeq(s, 1, k - 1) \o replacement \o SubSeq(s, k + 1, Len(s))
  ELSE s

\* the point left as it is
prettyAmount_noReplace(bankSlipNumber) ==
  LET currencyResult == currency(bankSlipNumber)
  IN  IF currencyResult = Null THEN amount(bankSlipNumber)
      ELSE currencyResult.symbol \o <<" ">> \o amount(bankSlipNumber)

prettyAmount(bankSlipNumber) ==
  LET currencyResult == currency(bankSlipNumber)
  IN  IF currencyResult = Null THEN amount(bankSlipNumber)
      ELSE currencyResult.symbol \o <<" ">> \o
           ReplaceFirst(amount(bankSlipNumber), ".", currencyResult.decimal)

----------------------------------------------------------------------------
(* itf.ts: Interleaved 2 of 5 *)

\* the entry of 0 with three wide elements
DIGIT_WEIGHTS_threeWide ==
  << <<"1","2","2","2","1">>, <<"2","1","1","1","2">>,
     <<"1","2","1","1","2">>, <<"2","2","1","1","1">>,
     <<"1","1","2","1","2">>, <<"2","1","2","1","1">>,
     <<"1","2","2","1","1">>, <<"1","1","1","2","2">>,
     <<"2","1","1","2","1">>, <<"1","2","1","2","1">> >>

DIGIT_WEIGHTS ==
  << <<"1","1","2","2","1">>,   \* 0
     <<"2","1","1","1","2">>,   \* 1
     <<"1","2","1","1","2">>,   \* 2
     <<"2","2","1","1","1">>,   \* 3
     <<"1","1","2","1","2">>,   \* 4
     <<"2","1","2","1","1">>,   \* 5
     <<"1","2","2","1","1">>,   \* 6
     <<"1","1","1","2","2">>,   \* 7
     <<"2","1","1","2","1">>,   \* 8
     <<"1","2","1","2","1">> >> \* 9

BARS_PER_DIGIT == 5

ITFMarkers ==
  [START |-> <<"1","1","1","1">>, STOP |-> <<"2","1","1">>]

\* /(..)/g: a trailing single character is not matched
RECURSIVE MatchPairs_evenOnly(_)
MatchPairs_evenOnly(s) ==
  IF Len(s) < 2 THEN <<>>
  ELSE <<SubSeq(s, 1, 2)>> \o MatchPairs_evenOnly(SubSeq(s, 3, Len(s)))

\* number.match(DIGIT_PAIR_PATTERN), /(..?)/g, of a string without line
\* terminators: two characters at a time, the last match one character
\* when the length is odd; no match at all (null) is the empty sequence
RECURSIVE MatchPairs(_)
MatchPairs(s) ==
  IF s = <<>> THEN <<>>
  ELSE IF Len(s) = 1 THEN <<s>>
  ELSE <<SubSeq(s, 1, 2)>> \o MatchPairs(SubSeq(s, 3, Len(s)))

\* the loop of interleavePair: result += black[i]; result += white[i]
RECURSIVE Interleave(_, _, _, _)
Interleave(black, white, i, acc) ==
  IF i < BARS_PER_DIGIT
  THEN Interleave(black, white, i + 1, acc \o <<black[i + 1], white[i + 1]>>)
  ELSE acc

\* white taken before black in the loop
interleavePair_whiteFirst(pair) ==
  LET pairNum == ParseInt(pair)
      black == DIGIT_WEIGHTS[(pairNum \div 10) + 1]
      white == DIGIT_WEIGHTS[(pairNum % 10) + 1]
  IN  Interleave(white, black, 0, <<>>)

\* the first digit taken for the white elements too
interleavePair_blackTwice(pair) ==
  LET pairNum == ParseInt(pair)
      black == DIGIT_WEIGHTS[(pairNum \div 10) + 1]
      white == DIGIT_WEIGHTS[(pairNum \div 10) + 1]
  IN  Interleave(black, white, 0, <<>>)

interleavePair(pair) ==
  LET pairNum == ParseInt(pair)
      black == DIGIT_WEIGHTS[(pairNum \div 10) + 1]
      white == DIGIT_WEIGHTS[(pairNum % 10) + 1]
  IN  Interleave(black, white, 0, <<>>)

\* pairs.map(ITFEncoder.interleavePair).join('')
RECURSIVE MapJoin(_)
MapJoin(pairs) ==
  IF pairs = <<>> THEN <<>>
  ELSE interleavePair(Head(pairs)) \o MapJoin(Tail(pairs))

encode(digits) ==
  LET pairs == MatchPairs(digits)
  IN  IF pairs = <<>> THEN ITFMarkers.START \o ITFMarkers.STOP
      ELSE ITFMarkers.START \o MapJoin(pairs) \o ITFMarkers.STOP

----------------------------------------------------------------------------
(* svg.ts: class SVG *)

DEFAULT_STRIPE_WIDTH == 4
DEFAULT_BARCODE_HEIGHT == 100

BarcodeColors == [BLACK |-> "#000000", WHITE |-> "#ffffff"]

\* the selector argument left out
Undefined == [kind |-> "undefined"]

\* new SVG(stripes, stripeWidth)
NewSVG(stripes, stripeWidth) ==
  [kind |-> "SVG",
   stripes |-> [k \in 1..Len(stripes) |-> DigitVal(stripes[k])],
   stripeWidth |-> stripeWidth]

\* the colours the other way round
color_swapped(i) ==
  IF i % 2 # 0 THEN BarcodeColors.BLACK ELSE BarcodeColors.WHITE

color(i) ==
  IF i % 2 # 0 THEN BarcodeColors.WHITE ELSE BarcodeColors.BLACK

\* this.stripes.reduce((a, b) => a + b, 0), here the sum of the stripes
\* lo..hi (from 1); taken by halves, which gives the same sum
RECURSIVE Reduce(_, _, _)
Reduce(stripes, lo, hi) ==
  IF lo > hi THEN 0
  ELSE IF lo = hi THEN stripes[lo]
  ELSE LET mid == (lo + hi) \div 2
       IN  Reduce(stripes, lo, mid) + Reduce(stripes, mid + 1, hi)

\* the sum without the unit width
viewBoxWidth_noUnit(this) == Reduce(this.stripes, 1, Len(this.stripes))

viewBoxWidth(this) ==
  Reduce(this.stripes, 1, Len(this.stripes)) * this.stripeWidth

\* the loop of render, for i from lo up to hi - 1 with pos the value it has
\* when i is lo: one rect per stripe, pos += width after each. The range is
\* taken by halves; pos at the middle is pos plus the widths before it.
RECURSIVE Shapes(_, _, _, _)
Shapes(this, lo, hi, pos) ==
  IF lo >= hi THEN <<>>
  ELSE IF hi = lo + 1
  THEN LET width == this.stripeWidth * this.stripes[lo + 1]
           shape == [tag |-> "rect",
                     width |-> NumberToString(width),
                     height |-> NumberToString(DEFAULT_BARCODE_HEIGHT),
                     fill |-> color(lo),
                     x |-> NumberToString(pos),
                     y |-> <<"0">>]
       IN  <<shape>>
  ELSE LET mid == (lo + hi) \div 2
           widths == this.stripeWidth * Reduce(this.stripes, lo + 1, mid)
       IN  Shapes(this, lo, mid, pos) \o Shapes(this, mid, hi, pos + widths)

\* the svg element render builds
SvgElement(this) ==
  [tag |-> "svg",
   children |-> Shapes(this, 0, Len(this.stripes), 0),
   width |-> <<"1","0","0","%">>,
   height |-> <<"1","0","0","%">>,
   viewBox |-> <<"0"," ","0"," ">> \o NumberToString(viewBoxWidth(this)) \o
               <<" ">> \o NumberToString(DEFAULT_BARCODE_HEIGHT)]

\* a selector: left out, the id of an element ("#id"), or a string that is
\* not a selector, on which document.querySelector throws a SyntaxError
IdSelector(id) == [kind |-> "id", id |-> id]
BadSelector == [kind |-> "malformed"]

\* the element found is never attached to
Render_noAppend(this, selector, doc) ==
  LET element == SvgElement(this)
  IN  IF selector = Undefined
      THEN [threw |-> FALSE, returned |-> [kind |-> "string", svg |-> element],
            doc |-> doc]
      ELSE IF selector.kind = "malformed"
      THEN [threw |-> TRUE, returned |-> [kind |-> "SyntaxError"], doc |-> doc]
      ELSE [threw |-> FALSE, returned |-> Null, doc |-> doc]

\* appendChild called without the test of element: a TypeError on null
Render_unguarded(this, selector, doc) ==
  LET element == SvgElement(this)
  IN  IF selector = Undefined
      THEN [threw |-> FALSE, returned |-> [kind |-> "string", svg |-> element],
            doc |-> doc]
      ELSE IF selector.kind = "malformed"
      THEN [threw |-> TRUE, returned |-> [kind |-> "SyntaxError"], doc |-> doc]
      ELSE IF selector.id \in DOMAIN doc
      THEN [threw |-> FALSE, returned |-> Null,
            doc |-> [doc EXCEPT ![selector.id] = Append(@, element)]]
      ELSE [threw |-> TRUE, returned |-> [kind |-> "TypeError"], doc |-> doc]

\* render(selector): whether it throws, what is returned or thrown, and the
\* page afterwards; the serialized string is kept as the element it
\* serializes
Render(this, selector, doc) ==
  LET element == SvgElement(this)
  IN  IF selector = Undefined
      THEN [threw |-> FALSE, returned |-> [kind |-> "string", svg |-> element],
            doc |-> doc]
      ELSE IF selector.kind = "malformed"
      THEN [threw |-> TRUE, returned |-> [kind |-> "SyntaxError"], doc |-> doc]
      ELSE IF selector.id \in DOMAIN doc
      THEN [threw |-> FALSE, returned |-> Null,
            doc |-> [doc EXCEPT ![selector.id] = Append(@, element)]]
      ELSE [threw |-> FALSE, returned |-> Null, doc |-> doc]

\* toSVG(selector): new SVG(encode(this.barcode())).render(selector)
toSVG(bankSlipNumber, selector, doc) ==
  LET stripes == encode(barcode(bankSlipNumber))
  IN  Render(NewSVG(stripes, DEFAULT_STRIPE_WIDTH), selector, doc)

----------------------------------------------------------------------------
(* Inputs of the constructor *)

\* boleto.test.ts: VALID_BOLETO, VALID_BOLETO_CLEAN and the rejected numbers
VALID_BOLETO ==
  <<"2","3","7","9","3",".","3","8","1","2","8"," ","8","6","0","0","0",".",
    "0","0","0","0","0","9"," ","0","0","0","0","0",".","0","0","0","3","8",
    "0"," ","1"," ","8","4","6","6","0","0","0","0","0","1","2","3","4",
    "5">>

VALID_BOLETO_CLEAN ==
  <<"2","3","7","9","3","3","8","1","2","8","8","6","0","0","0","0","0","0",
    "0","0","9","0","0","0","0","0","0","0","0","3","8","0","1","8","4","6",
    "6","0","0","0","0","0","1","2","3","4","5">>

INVALID_BOLETO ==
  <<"1","2","3","4","5","6","7","8","9","0","1","2","3","4","5","6","7","8",
    "9","0","1","2","3","4","5","6","7","8","9","0","1","2","3","4","5","6",
    "7","8","9","0","1","2","3","4","5","6","7">>

SHORT_NUMBER == <<"1","2","3","4","5","6","7","8","9","0">>

\* the slip number of the usage example in the README, and its digits
README_BOLETO ==
  <<"3","4","1","9","5",".","0","0","0","0","8"," ","0","1","2","3","3",".",
    "2","0","3","1","8","9"," ","6","4","2","2","1",".","4","7","0","0","0",
    "4"," ","5"," ","8","4","4","1","0","0","0","0","0","0","2","0","0",
    "0">>

README_BOLETO_CLEAN ==
  <<"3","4","1","9","5","0","0","0","0","8","0","1","2","3","3","2","0","3",
    "1","8","9","6","4","2","2","1","4","7","0","0","0","4","5","8","4","4",
    "1","0","0","0","0","0","0","2","0","0","0">>

\* how many of EditDigitOrder, and of EditPositionOrder, the inputs use
NumEditDigits == 2
NumEditPositions == 3

EditDigitOrder == <<"0","9","5","1","7","3","2","4","6","8">>

\* 1-indexed positions of the printed number: bank code, currency, the
\* check digit of the barcode, the last amount digit, a group check digit,
\* the due date, the free field
EditPositionOrder == <<1, 33, 4, 47, 10, 37, 21, 32, 5, 2, 3, 38>>

Min(a, b) == IF a < b THEN a ELSE b

EditDigits == {EditDigitOrder[k] : k \in 1..Min(NumEditDigits, 10)}
EditPositions == {EditPositionOrder[k] : k \in 1..Min(NumEditPositions, 12)}

\* the issuer's side: write the check digit the other 43 digits call for
WithCheckDigit(s) ==
  [s EXCEPT ![33] = DigitChars[modulo11(SpliceRest(barcode(s), 4)) + 1]]

\* the usual mask, typed by hand
Masked(s) ==
  SubSeq(s, 1, 5) \o <<".">> \o SubSeq(s, 6, 10) \o <<" ">> \o
  SubSeq(s, 11, 15) \o <<".">> \o SubSeq(s, 16, 21) \o <<" ">> \o
  SubSeq(s, 22, 26) \o <<".">> \o SubSeq(s, 27, 32) \o <<" ">> \o
  SubSeq(s, 33, 33) \o <<" ">> \o SubSeq(s, 34, 47)

\* other characters a caller may leave in the string
Decorated(s) ==
  <<"n","o",":"," ">> \o Substring(s, 0, 20) \o <<"-","/">> \o
  Substring(s, 20, Len(s)) \o <<"\n">>

BaseNumbers == {VALID_BOLETO_CLEAN, README_BOLETO_CLEAN}

\* a base number with one digit replaced, as printed (check digit stale)
EditedNumbers ==
  {[b EXCEPT ![p] = c] : b \in BaseNumbers, p \in EditPositions, c \in EditDigits}

\* the same with the check digit recomputed
IssuedNumbers == {WithCheckDigit(s) : s \in EditedNumbers}

\* a base number with the due date or the amount rewritten, as issued
WithField(s, first, digits) ==
  WithCheckDigit([k \in 1..Len(s) |->
                   IF k >= first /\ k < first + Len(digits)
                   THEN digits[k - first + 1] ELSE s[k]])

FieldNumbers ==
  {WithField(VALID_BOLETO_CLEAN, 4, <<c>>) : c \in Digit} \cup
  {WithField(VALID_BOLETO_CLEAN, 34, d) :
     d \in {<<"0","0","0","0">>, <<"0","0","0","1">>, <<"9","9","9","9">>}} \cup
  {WithField(VALID_BOLETO_CLEAN, 38, d) :
     d \in {<<"0","0","0","0","0","0","0","0","0","0">>,
            <<"0","0","0","0","0","0","0","0","0","5">>,
            <<"0","0","0","0","0","0","0","1","0","0">>,
            <<"9","9","9","9","9","9","9","9","9","9">>}}

WrongLengthNumbers ==
  {<<>>, SHORT_NUMBER} \cup
  {SubSeq(b, 1, 46) : b \in BaseNumbers} \cup
  {b \o <<"0">> : b \in BaseNumbers} \cup
  {SubSeq(b, 2, 47) : b \in BaseNumbers}

Inputs ==
  {VALID_BOLETO, README_BOLETO, INVALID_BOLETO, Masked(INVALID_BOLETO),
   <<".", " ">>} \cup
  BaseNumbers \cup EditedNumbers \cup IssuedNumbers \cup FieldNumbers \cup
  WrongLengthNumbers \cup
  {Decorated(b) : b \in BaseNumbers \cup {SHORT_NUMBER}} \cup
  {Masked(b) : b \in BaseNumbers}

----------------------------------------------------------------------------
(* The slots a caller keeps instances in, and the page *)

Slots == {"a", "b"}

\* the ids of the elements of the page (svg.test.ts: <div id="barcode">)
ElementIds == {"barcode"}

Init ==
  /\ boleto = [i \in Slots |-> NoBoleto]
  /\ attempt = [i \in Slots |-> NoCall]
  /\ result = NoCall
  /\ arg = <<>>
  /\ ret = NoCall
  /\ svg = NoSVG
  /\ document = [id \in ElementIds |-> <<>>]
  /\ currencyObject = BRL_CURRENCY

\* x = new Boleto(input): slot i holds the instance unless the call throws;
\* from tells where the caller took the input: its own string ("caller") or
\* prettyNumber() of the instance in a slot
Construct(i, input, from) ==
  /\ LET c == Constructor(input)
     IN  /\ attempt' = [attempt EXCEPT ![i] =
                          [op |-> "new", input |-> input, from |-> from,
                           threw |-> c.threw, error |-> c.error]]
         /\ boleto' = [boleto EXCEPT ![i] =
                          IF c.threw THEN NoBoleto
                          ELSE [kind |-> "Boleto",
                                bankSlipNumber |-> c.bankSlipNumber]]
  /\ UNCHANGED <<result, arg, ret, svg, document, currencyObject>>

New(i, input) ==
  /\ attempt[i].op = "none"
  /\ Construct(i, input, "caller")

\* y = new Boleto(x.prettyNumber())
NewFromPretty(i, j) ==
  /\ boleto[i].kind = "Boleto"
  /\ attempt[j].op = "none"
  /\ Construct(j, prettyNumber(boleto[i].bankSlipNumber), i)

\* barcode() keeping what it computed in the field
Returned_storing(op, i, value) ==
  /\ result' = [op |-> op, inst |-> i, threw |-> FALSE, value |-> value]
  /\ boleto' = IF op = "barcode"
               THEN [boleto EXCEPT ![i].bankSlipNumber = value]
               ELSE boleto
  /\ UNCHANGED <<attempt, arg, ret, svg, document, currencyObject>>

Returned(op, i, value) ==
  /\ result' = [op |-> op, inst |-> i, threw |-> FALSE, value |-> value]
  /\ UNCHANGED <<boleto, attempt, arg, ret, svg, document, currencyObject>>

CallValid(i) ==
  /\ boleto[i].kind = "Boleto"
  /\ Returned("valid", i, valid(boleto[i].bankSlipNumber))

CallNumber(i) ==
  /\ boleto[i].kind = "Boleto"
  /\ Returned("number", i, number(boleto[i].bankSlipNumber))

CallPrettyNumber(i) ==
  /\ boleto[i].kind = "Boleto"
  /\ Returned("prettyNumber", i, prettyNumber(boleto[i].bankSlipNumber))

CallBarcode(i) ==
  /\ boleto[i].kind = "Boleto"
  /\ Returned("barcode", i, barcode(boleto[i].bankSlipNumber))

CallBank(i) ==
  /\ boleto[i].kind = "Boleto"
  /\ Returned("bank", i, bank(boleto[i].bankSlipNumber))

CallCurrency(i) ==
  /\ boleto[i].kind = "Boleto"
  /\ Returned("currency", i, currency(boleto[i].bankSlipNumber))

CallChecksum(i) ==
  /\ boleto[i].kind = "Boleto"
  /\ Returned("checksum", i, checksum(boleto[i].bankSlipNumber))

CallExpirationDate(i) ==
  /\ boleto[i].kind = "Boleto"
  /\ Returned("expirationDate", i, expirationDate(boleto[i].bankSlipNumber))

CallAmount(i) ==
  /\ boleto[i].kind = "Boleto"
  /\ Returned("amount", i, amount(boleto[i].bankSlipNumber))

CallPrettyAmount(i) ==
  /\ boleto[i].kind = "Boleto"
  /\ Returned("prettyAmount", i, prettyAmount(boleto[i].bankSlipNumber))

Next ==
  \/ \E i \in Slots, input \in Inputs : New(i, input)
  \/ \E i, j \in Slots : NewFromPretty(i, j)
  \/ \E i \in Slots : CallValid(i)
  \/ \E i \in Slots : CallNumber(i)
  \/ \E i \in Slots : CallPrettyNumber(i)
  \/ \E i \in Slots : CallBarcode(i)
  \/ \E i \in Slots : CallBank(i)
  \/ \E i \in Slots : CallCurrency(i)
  \/ \E i \in Slots : CallChecksum(i)
  \/ \E i \in Slots : CallExpirationDate(i)
  \/ \E i \in Slots : CallAmount(i)
  \/ \E i \in Slots : CallPrettyAmount(i)

Spec == Init /\ [][Next]_vars

----------------------------------------------------------------------------
(* Direct calls of modulo11 *)

MaxLen == 3
MaxUnitLen == 17

RECURSIVE DigitSeqs(_)
DigitSeqs(n) ==
  IF n = 0 THEN {<<>>}
  ELSE LET S == DigitSeqs(n - 1)
       IN  S \cup {Append(d, c) : d \in {t \in S : Len(t) = n - 1}, c \in Digit}

\* zeros with one digit somewhere: each weight shows on its own
UnitSeqs ==
  UNION {{[k \in 1..n |-> IF k = p THEN c ELSE "0"] : p \in 1..n, c \in Digit} :
         n \in 1..MaxUnitLen}

\* helpers.test.ts: the reference vectors
REFERENCE_9 == <<"1","2","3","4","5","6","7","8","9">>

REFERENCE_14 == REFERENCE_9 \o <<"0","1","2","3","4">>

BARCODE_WITHOUT_CHECKSUM ==
  <<"2","3","7","9","8","4","6","6","0","0","0","0","0","1","2","3","4","5",
    "3","3","8","1","2","8","6","0","0","0","0","0","0","0","0","0","0","0",
    "0","0","0","0","0","3","8">>

Modulo11Inputs ==
  DigitSeqs(MaxLen) \cup UnitSeqs \cup
  {REFERENCE_9, REFERENCE_14, BARCODE_WITHOUT_CHECKSUM}

\* the caller picks the argument
InitModulo11 ==
  /\ boleto = [i \in Slots |-> NoBoleto]
  /\ attempt = [i \in Slots |-> NoCall]
  /\ result = NoCall
  /\ arg \in Modulo11Inputs
  /\ ret = NoCall
  /\ svg = NoSVG
  /\ document = [id \in ElementIds |-> <<>>]
  /\ currencyObject = BRL_CURRENCY

CallModulo11 ==
  /\ ret.op = "none"
  /\ ret' = [op |-> "modulo11", value |-> modulo11(arg)]
  /\ UNCHANGED <<boleto, attempt, result, arg, svg, document, currencyObject>>

\* modulo11(number.split('')) after modulo11(number), as helpers.test.ts
\* calls the two; arg is the array afterwards
CallModulo11OfArray ==
  /\ ret.op = "modulo11"
  /\ LET r == modulo11OfArray(arg)
     IN  /\ ret' = [op |-> "modulo11OfArray", ofString |-> ret.value,
                    passed |-> arg, value |-> r.value]
         /\ arg' = r.number
  /\ UNCHANGED <<boleto, attempt, result, svg, document, currencyObject>>

NextModulo11 == CallModulo11 \/ CallModulo11OfArray

SpecModulo11 == InitModulo11 /\ [][NextModulo11]_vars

----------------------------------------------------------------------------
(* Direct calls of encode *)

MaxEncodeLen == 3

\* itf.test.ts: the typical barcode number
ITF_TEST_BARCODE ==
  <<"2","3","7","9","1","8","4","6","6","0","0","0","0","1","2","3","4","5",
    "6","3","3","8","1","2","8","6","0","0","0","0","0","0","0","0","0","0",
    "0","0","0","0","0","3","8","1">>

EncodeInputs ==
  DigitSeqs(MaxEncodeLen) \cup
  {SubSeq(ITF_TEST_BARCODE, 1, n) : n \in 0..Len(ITF_TEST_BARCODE)} \cup
  {<<"0","1","2","3">>, <<"1","2","3","4","5","6","7","8","9","0">>}

InitEncode ==
  /\ boleto = [i \in Slots |-> NoBoleto]
  /\ attempt = [i \in Slots |-> NoCall]
  /\ result = NoCall
  /\ arg \in EncodeInputs
  /\ ret = NoCall
  /\ svg = NoSVG
  /\ document = [id \in ElementIds |-> <<>>]
  /\ currencyObject = BRL_CURRENCY

CallEncode ==
  /\ ret.op = "none"
  /\ ret' = [op |-> "encode", value |-> encode(arg)]
  /\ UNCHANGED <<boleto, attempt, result, arg, svg, document, currencyObject>>

NextEncode == CallEncode

SpecEncode == InitEncode /\ [][NextEncode]_vars

----------------------------------------------------------------------------
(* An SVG instance and the calls of render *)

MaxPatternLen == 5
MaxAppends == 2

RECURSIVE Patterns(_)
Patterns(n) ==
  IF n = 0 THEN {<<>>}
  ELSE LET S == Patterns(n - 1)
       IN  S \cup {Append(p, c) : p \in {t \in S : Len(t) = n - 1},
                                 c \in {"1", "2"}}

\* svg.test.ts: '1234' and '5'; and the pattern of a pair of digits
StripeInputs ==
  Patterns(MaxPatternLen) \cup
  {<<"1","2","3","4">>, <<"5">>, encode(<<"0","1">>)}

\* the default, the width of svg.test.ts, and the unit
StripeWidths == {DEFAULT_STRIPE_WIDTH, 8, 1}

Selectors ==
  {Undefined, IdSelector("barcode"), IdSelector("nonexistent"), BadSelector}

InitSVG ==
  /\ boleto = [i \in Slots |-> NoBoleto]
  /\ attempt = [i \in Slots |-> NoCall]
  /\ result = NoCall
  /\ arg \in StripeInputs
  /\ ret = NoCall
  /\ \E stripeWidth \in StripeWidths : svg = NewSVG(arg, stripeWidth)
  /\ document = [id \in ElementIds |-> <<>>]
  /\ currencyObject = BRL_CURRENCY

CallRender(selector) ==
  /\ svg.kind = "SVG"
  /\ \A id \in DOMAIN document : Len(document[id]) < MaxAppends
  /\ LET r == Render(svg, selector, document)
     IN  /\ ret' = [op |-> "render", selector |-> selector,
                    threw |-> r.threw, value |-> r.returned]
         /\ document' = r.doc
  /\ UNCHANGED <<boleto, attempt, result, arg, svg, currencyObject>>

NextSVG == \E selector \in Selectors : CallRender(selector)

SpecSVG == InitSVG /\ [][NextSVG]_vars

----------------------------------------------------------------------------
(* Instances on a page: the accessors and toSVG *)

\* 1-indexed positions of the check digits of the three groups
GroupCheckPositions == {10, 21, 32}

WithGroupDigits(s, c) ==
  [k \in 1..Len(s) |-> IF k \in GroupCheckPositions THEN c ELSE s[k]]

PageInputs ==
  {VALID_BOLETO_CLEAN, WithGroupDigits(VALID_BOLETO_CLEAN, "0"),
   README_BOLETO_CLEAN,
   INVALID_BOLETO, WithGroupDigits(INVALID_BOLETO, "5")}

CallToSVG(i, selector) ==
  /\ boleto[i].kind = "Boleto"
  /\ \A id \in DOMAIN document : Len(document[id]) < MaxAppends
  /\ LET r == toSVG(boleto[i].bankSlipNumber, selector, document)
     IN  /\ result' = [op |-> "toSVG", inst |-> i, selector |-> selector,
                       threw |-> r.threw, value |-> r.returned]
         /\ document' = r.doc
  /\ UNCHANGED <<boleto, attempt, arg, ret, svg, currencyObject>>

NextPage ==
  \/ \E i \in Slots, input \in PageInputs : New(i, input)
  \/ \E i \in Slots : CallValid(i)
  \/ \E i \in Slots : CallNumber(i)
  \/ \E i \in Slots : CallPrettyNumber(i)
  \/ \E i \in Slots : CallBarcode(i)
  \/ \E i \in Slots : CallBank(i)
  \/ \E i \in Slots : CallCurrency(i)
  \/ \E i \in Slots : CallChecksum(i)
  \/ \E i \in Slots : CallExpirationDate(i)
  \/ \E i \in Slots : CallAmount(i)
  \/ \E i \in Slots : CallPrettyAmount(i)
  \/ \E i \in Slots, selector \in Selectors : CallToSVG(i, selector)

SpecPage == Init /\ [][NextPage]_vars

----------------------------------------------------------------------------
(* A caller that assigns to the descriptor currency() returned *)

\* what the caller writes into the field symbol
OTHER_SYMBOL == <<"U","S","$">>

\* c = x.currency(); c.symbol = 'US$': c is the object BRL_CURRENCY itself
AssignSymbol ==
  /\ result.op = "currency"
  /\ result.value # Null
  /\ currencyObject' = [currencyObject EXCEPT !.symbol = OTHER_SYMBOL]
  /\ result' = [result EXCEPT !.value = currencyObject']
  /\ UNCHANGED <<boleto, attempt, arg, ret, svg, document>>

NextShared ==
  \/ \E i \in Slots, input \in PageInputs : New(i, input)
  \/ \E i \in Slots : CallValid(i)
  \/ \E i \in Slots : CallNumber(i)
  \/ \E i \in Slots : CallPrettyNumber(i)
  \/ \E i \in Slots : CallBarcode(i)
  \/ \E i \in Slots : CallBank(i)
  \/ \E i \in Slots : CallCurrency(i)
  \/ \E i \in Slots : CallChecksum(i)
  \/ \E i \in Slots : CallExpirationDate(i)
  \/ \E i \in Slots : CallAmount(i)
  \/ \E i \in Slots : CallPrettyAmount(i)
  \/ AssignSymbol

SpecShared == Init /\ [][NextShared]_vars

----------------------------------------------------------------------------
(* Every digit tried at the place of the check digit *)

\* 47 digits, the one at the place of the check digit to be replaced:
\* zeros with one digit somewhere, and the numbers of the tests
CheckDigitInputs ==
  {[k \in 1..BANK_SLIP_NUMBER_LENGTH |-> IF k = p THEN c ELSE "0"] :
     p \in 1..BANK_SLIP_NUMBER_LENGTH, c \in Digit} \cup
  {VALID_BOLETO_CLEAN, README_BOLETO_CLEAN, INVALID_BOLETO}

InitCheckDigit ==
  /\ boleto = [i \in Slots |-> NoBoleto]
  /\ attempt = [i \in Slots |-> NoCall]
  /\ result = NoCall
  /\ arg \in CheckDigitInputs
  /\ ret = [op |-> "new", tried |-> 0, accepted |-> {}]
  /\ svg = NoSVG
  /\ document = [id \in ElementIds |-> <<>>]
  /\ currencyObject = BRL_CURRENCY

\* new Boleto(s), s being arg with the next digit at the place of the check
\* digit (the 33rd character); the digits accepted are kept, each with the
\* checksum() of its instance
TryCheckDigit ==
  /\ ret.tried < 10
  /\ LET d == DigitChars[ret.tried + 1]
         c == Constructor([arg EXCEPT ![33] = d])
     IN  ret' = [op |-> "new", tried |-> ret.tried + 1,
                 accepted |->
                   IF c.threw THEN ret.accepted
                   ELSE ret.accepted \cup
                        {[digit |-> d,
                          checksum |-> checksum(c.bankSlipNumber)]}]
  /\ UNCHANGED <<boleto, attempt, result, arg, svg, document, currencyObject>>

NextCheckDigit == TryCheckDigit

SpecCheckDigit == InitCheckDigit /\ [][NextCheckDigit]_vars

----------------------------------------------------------------------------
(* What the properties are stated with *)

DecimalValue(c) ==
  CASE c = "0" -> 0 [] c = "1" -> 1 [] c = "2" -> 2 [] c = "3" -> 3
    [] c = "4" -> 4 [] c = "5" -> 5 [] c = "6" -> 6 [] c = "7" -> 7
    [] c = "8" -> 8 [] c = "9" -> 9

\* the decimal digits of a string, in order
RECURSIVE DigitSubsequence(_)
DigitSubsequence(s) ==
  IF s = <<>> THEN <<>>
  ELSE IF Head(s) \in {"0","1","2","3","4","5","6","7","8","9"}
       THEN <<Head(s)>> \o DigitSubsequence(Tail(s))
       ELSE DigitSubsequence(Tail(s))

\* S: the sum over i in 0..k-1 of ((i mod 8) + 2) * d[n-1-i], 0-indexed
RECURSIVE WeightSum(_, _)
WeightSum(d, k) ==
  IF k = 0 THEN 0
  ELSE WeightSum(d, k - 1) +
       (((k - 1) % 8) + 2) * DecimalValue(d[Len(d) - (k - 1)])

CheckDigit(d) ==
  LET r == (11 - (WeightSum(d, Len(d)) % 11)) % 10
  IN  IF r = 0 THEN 1 ELSE r

\* 1-indexed position in the printed number of the k-th barcode digit
PrintedPosition(k) ==
  IF k <= 4 THEN k
  ELSE IF k <= 19 THEN k + 28
  ELSE IF k <= 24 THEN k - 15
  ELSE IF k <= 34 THEN k - 14
  ELSE k - 13

BarcodeOf(s) == [k \in 1..44 |-> s[PrintedPosition(k)]]

\* the barcode digits other than the one at offset 4
OtherBarcodeDigits(s) ==
  [k \in 1..43 |-> BarcodeOf(s)[IF k <= 4 THEN k ELSE k + 1]]

\* the digit at barcode offset 4 is modulo 11 of the other 43
CheckDigitMatches(s) ==
  DecimalValue(BarcodeOf(s)[5]) = CheckDigit(OtherBarcodeDigits(s))

WellFormed(s) ==
  /\ Len(s) = 47
  /\ \A k \in 1..47 : s[k] \in {"0","1","2","3","4","5","6","7","8","9"}
  /\ CheckDigitMatches(s)

Called(i) == attempt[i].op = "new"
Exists(i) == boleto[i].kind = "Boleto"

BARCODE_OF_VALID_BOLETO ==
  <<"2","3","7","9","1","8","4","6","6","0","0","0","0","0","1","2","3","4",
    "5","3","3","8","1","2","8","6","0","0","0","0","0","0","0","0","0","0",
    "0","0","0","0","0","0","3","8">>

\* the number with the separators of the mask put in
SeparatorAfter(n) ==
  IF n \in {5, 15, 26} THEN <<".">>
  ELSE IF n \in {10, 21, 32, 33} THEN <<" ">>
  ELSE <<>>

RECURSIVE WithSeparators(_, _)
WithSeparators(s, n) ==
  IF n > Len(s) THEN <<>>
  ELSE <<s[n]>> \o SeparatorAfter(n) \o WithSeparators(s, n + 1)

----------------------------------------------------------------------------
(* Properties *)

\* C1: new Boleto(input) succeeds exactly when the digits of the input are
\* 47 and the digit at barcode offset 4 is modulo 11 of the other 43
\* barcode digits; every other call throws the validation error, and
\* valid() is false of a digit string whose length is not 47.
C1_ConstructionIff ==
  \A i \in Slots :
    Called(i) =>
      LET d == DigitSubsequence(attempt[i].input)
      IN  /\ ~attempt[i].threw <=> (Len(d) = 47 /\ CheckDigitMatches(d))
          /\ attempt[i].threw => attempt[i].error.name = "BoletoValidationError"
          /\ Len(d) # 47 => ~valid(d)

C1_Witness ==
  \E i, j \in Slots :
    /\ Called(i) /\ ~attempt[i].threw
    /\ Called(j) /\ attempt[j].threw
    /\ Len(DigitSubsequence(attempt[j].input)) = 47

\* C2: a constructor call leaves an instance or throws, nothing else; an
\* instance holds 47 decimal digits whose barcode check digit is modulo 11
\* of the other 43, valid() returns true of it, and accessor calls keep it so.
C2_ValidInstances ==
  /\ \A i \in Slots :
       /\ Called(i) => (attempt[i].threw <=> ~Exists(i))
       /\ ~Called(i) => ~Exists(i)
       /\ Exists(i) => WellFormed(boleto[i].bankSlipNumber)
  /\ result.op = "valid" => result.value = TRUE

C2_Witness ==
  /\ result.op = "valid"
  /\ \E i \in Slots : Called(i) /\ attempt[i].threw
  /\ \E i \in Slots : Exists(i)

\* C3: every failed construction throws BoletoValidationError with the
\* message 'Invalid bank slip number' and the stripped digits of the input
\* in bankSlipNumber, whatever the cause.
C3_OneErrorKind ==
  \A i \in Slots :
    (Called(i) /\ attempt[i].threw) =>
      attempt[i].error =
        [name |-> "BoletoValidationError",
         message |-> "Invalid bank slip number",
         bankSlipNumber |-> DigitSubsequence(attempt[i].input)]

C3_Witness ==
  \E i, j \in Slots :
    /\ Called(i) /\ attempt[i].threw
    /\ Called(j) /\ attempt[j].threw
    /\ Len(DigitSubsequence(attempt[i].input)) = 47
    /\ Len(DigitSubsequence(attempt[j].input)) \notin {0, 47}
    /\ attempt[j].input # DigitSubsequence(attempt[j].input)
    /\ attempt[i].error.name = attempt[j].error.name
    /\ attempt[i].error.message = attempt[j].error.message

\* C4: barcode() of a valid number s is the 44 digits
\* s[0..3] + s[32..46] + s[4..8] + s[10..19] + s[21..30].
C4_BarcodeRearrangement ==
  result.op = "barcode" =>
    LET s == boleto[result.inst].bankSlipNumber
    IN  /\ Len(result.value) = 44
        /\ result.value = BarcodeOf(s)
        /\ s = VALID_BOLETO_CLEAN => result.value = BARCODE_OF_VALID_BOLETO

C4_Witness ==
  /\ result.op = "barcode"
  /\ boleto[result.inst].bankSlipNumber = VALID_BOLETO_CLEAN

\* C5: modulo11(d) is (11 - (S mod 11)) mod 10, or 1 when that is 0, with
\* S the sum of the digits weighted 2,3,...,9 cycling from the last digit;
\* modulo11('123456789') = 7.
C5_Modulo11Formula ==
  ret.op = "modulo11" =>
    /\ ret.value = CheckDigit(arg)
    /\ arg = REFERENCE_9 => ret.value = 7

C5_Witness ==
  /\ ret.op = "modulo11"
  /\ arg = REFERENCE_9
  /\ ret.value = 7

\* C6: modulo11 returns an integer in 1..9 for every digit sequence, the
\* empty one included; modulo11('') = 1 and modulo11('0') = 1.
C6_Modulo11Range ==
  ret.op = "modulo11" =>
    /\ ret.value \in 1..9
    /\ arg = <<>> => ret.value = 1
    /\ arg = <<"0">> => ret.value = 1

C6_Witness ==
  /\ ret.op = "modulo11"
  /\ arg = <<"6">>
  /\ ret.value = 1

\* C7: construction depends on the digits of the input only: two inputs
\* with the same digits both fail or both succeed with the same number(),
\* and number() of an instance is the digits of its input.
C7_DigitsOnly ==
  /\ \A i, j \in Slots :
       (Called(i) /\ Called(j) /\
        DigitSubsequence(attempt[i].input) = DigitSubsequence(attempt[j].input))
       => /\ attempt[i].threw = attempt[j].threw
          /\ attempt[i].error = attempt[j].error
          /\ boleto[i] = boleto[j]
  /\ \A i \in Slots :
       Exists(i) =>
         boleto[i].bankSlipNumber = DigitSubsequence(attempt[i].input)
  /\ result.op = "number" =>
       result.value = DigitSubsequence(attempt[result.inst].input)

C7_Witness ==
  \E i, j \in Slots :
    /\ Exists(i) /\ Exists(j)
    /\ attempt[i].input # attempt[j].input
    /\ DigitSubsequence(attempt[i].input) = DigitSubsequence(attempt[j].input)
    /\ result.op = "number" /\ result.inst = i
    /\ result.value # attempt[i].input

\* C8: prettyNumber() is number() with '.' after digits 5, 15 and 26 and
\* ' ' after digits 10, 21, 32 and 33, 54 characters, and constructing
\* from it succeeds with the same number().
C8_PrettyNumber ==
  /\ result.op = "prettyNumber" =>
       /\ result.value =
            WithSeparators(number(boleto[result.inst].bankSlipNumber), 1)
       /\ Len(result.value) = 54
  /\ \A j \in Slots :
       (Called(j) /\ attempt[j].from \in Slots) =>
         /\ attempt[j].input =
              WithSeparators(boleto[attempt[j].from].bankSlipNumber, 1)
         /\ ~attempt[j].threw
         /\ Exists(j)
         /\ number(boleto[j].bankSlipNumber) =
              number(boleto[attempt[j].from].bankSlipNumber)

C8_Witness ==
  /\ result.op = "prettyNumber"
  /\ \E j \in Slots :
       /\ Called(j) /\ attempt[j].from \in Slots
       /\ Exists(j)
       /\ result.inst = attempt[j].from

C10_BankOfTestSlip ==
  (result.op = "bank" /\ attempt[result.inst].input = VALID_BOLETO) =>
    result.value = "BCO BRADESCO S.A."

\* the amount field of the barcode, offsets 9..18
AmountField(s) == SubSeq(BarcodeOf(s), 10, 19)

\* the due date field of the barcode, offsets 5..8, as a number of days
DueDays(s) ==
  LET b == BarcodeOf(s)
  IN  1000 * DecimalValue(b[6]) + 100 * DecimalValue(b[7]) +
      10 * DecimalValue(b[8]) + DecimalValue(b[9])

\* a digit string without its leading zeros, "0" when nothing is left
RECURSIVE WithoutLeadingZeros(_)
WithoutLeadingZeros(d) ==
  IF Len(d) <= 1 THEN (IF d = <<>> THEN <<"0">> ELSE d)
  ELSE IF Head(d) = "0" THEN WithoutLeadingZeros(Tail(d))
  ELSE d

\* the amount field divided by 100, written with the separator sep
AmountWith(s, sep) ==
  WithoutLeadingZeros(SubSeq(AmountField(s), 1, 8)) \o sep \o
  SubSeq(AmountField(s), 9, 10)

\* a time of the model in milliseconds, as decimal digits
Milliseconds(t) == NumberToString(t) \o <<"0","0","0","0","0">>

\* C11: currency() is the descriptor {code: 'BRL', symbol: 'R$',
\* decimal: ','} exactly when barcode()[3] is '9', and the absent result
\* for each of the other nine digits.
C11_Currency ==
  result.op = "currency" =>
    LET c == BarcodeOf(boleto[result.inst].bankSlipNumber)[4]
    IN  /\ c = "9" =>
             /\ result.value.kind = "Currency"
             /\ result.value.code = <<"B","R","L">>
             /\ result.value.symbol = <<"R","$">>
             /\ result.value.decimal = <<",">>
        /\ c # "9" => result.value.kind = "null"

C11_Witness ==
  /\ result.op = "currency"
  /\ result.value.kind = "null"
  /\ \E i \in Slots :
       Exists(i) /\ BarcodeOf(boleto[i].bankSlipNumber)[4] = "9"

\* C12: currency() is a descriptor or the string 'Unknown': the string
\* whenever barcode()[3] is not '9', so a result other than 'Unknown' has
\* the fields code, symbol and decimal.
C12_CurrencyOrUnknownString ==
  result.op = "currency" =>
    LET c == BarcodeOf(boleto[result.inst].bankSlipNumber)[4]
    IN  /\ c # "9" =>
             /\ result.value.kind = "string"
             /\ result.value.value = "Unknown"
        /\ result.value.kind # "string" => result.value.kind = "Currency"

\* C13: amount() is the integer N of barcode()[9..18] divided by 100 with
\* two fractional digits: N div 100 without leading zeros, '.', N mod 100
\* on two digits; '0000012345' gives '123.45'.
C13_Amount ==
  result.op = "amount" =>
    LET s == boleto[result.inst].bankSlipNumber
    IN  /\ result.value = AmountWith(s, <<".">>)
        /\ AmountField(s) = <<"0","0","0","0","0","1","2","3","4","5">>
             => result.value = <<"1","2","3",".","4","5">>

C13_Witness ==
  /\ result.op = "amount"
  /\ result.value = <<"9","9","9","9","9","9","9","9",".","9","9">>

\* C14: prettyAmount() is the currency symbol, a space and amount() with
\* its '.' replaced by the decimal separator when the currency is known
\* ('R$ 123,45'), and amount() unchanged when it is not.
C14_PrettyAmount ==
  result.op = "prettyAmount" =>
    LET s == boleto[result.inst].bankSlipNumber
    IN  /\ BarcodeOf(s)[4] = "9" =>
             result.value = <<"R","$"," ">> \o AmountWith(s, <<",">>)
        /\ BarcodeOf(s)[4] # "9" => result.value = AmountWith(s, <<".">>)
        /\ s = VALID_BOLETO_CLEAN =>
             result.value = <<"R","$"," ","1","2","3",",","4","5">>

C14_Witness ==
  /\ result.op = "prettyAmount"
  /\ BarcodeOf(boleto[result.inst].bankSlipNumber)[4] # "9"
  /\ \E i \in Slots : Exists(i) /\ boleto[i].bankSlipNumber = VALID_BOLETO_CLEAN

\* C15: expirationDate() is 876236400000 ms plus D * 86400000 ms, D the
\* integer of barcode()[5..8], with no calendar adjustment.
C15_ExpirationDate ==
  result.op = "expirationDate" =>
    LET s == boleto[result.inst].bankSlipNumber
    IN  /\ result.value.kind = "Date"
        /\ result.value.time = 8762364 + DueDays(s) * 864
        /\ DueDays(s) = 0 =>
             Milliseconds(result.value.time) =
               <<"8","7","6","2","3","6","4","0","0","0","0","0">>
        /\ DueDays(s) = 8466 =>
             Milliseconds(result.value.time) =
               <<"1","6","0","7","6","9","8","8","0","0","0","0","0">>

C15_Witness ==
  /\ result.op = "expirationDate"
  /\ DueDays(boleto[result.inst].bankSlipNumber) = 9999

\* C16, as stated: expirationDate() is a date strictly after the epoch
\* 876236400000 ms.
C16_StrictlyAfterEpoch ==
  result.op = "expirationDate" =>
    /\ result.value.kind = "Date"
    /\ result.value.time > 8762364

\* C16, amended: expirationDate() is a date not before the epoch
\* 876236400000 ms, and strictly after it exactly when barcode()[5..8] is
\* not '0000'.
C16_NotBeforeEpoch ==
  result.op = "expirationDate" =>
    /\ result.value.kind = "Date"
    /\ result.value.time >= 8762364
    /\ result.value.time > 8762364 <=>
         SubSeq(BarcodeOf(boleto[result.inst].bankSlipNumber), 6, 9)
           # <<"0","0","0","0">>

C16_Witness ==
  /\ result.op = "expirationDate"
  /\ result.value.time = 8762364
  /\ \E i \in Slots : Exists(i) /\ DueDays(boleto[i].bankSlipNumber) > 0

\* C17: checksum() is one decimal digit character, barcode()[4], the
\* digit at position 32 of the printed number.
C17_Checksum ==
  result.op = "checksum" =>
    LET s == boleto[result.inst].bankSlipNumber
    IN  /\ Len(result.value) = 1
        /\ result.value[1] \in {"0","1","2","3","4","5","6","7","8","9"}
        /\ result.value = <<BarcodeOf(s)[5]>>
        /\ result.value = <<s[33]>>

C17_Witness ==
  /\ result.op = "checksum"
  /\ result.value = <<"5">>

----------------------------------------------------------------------------
(* The encoder *)

\* the number of groups of a string of n characters: ceil(n / 2)
Groups(n) == (n + 1) \div 2

\* group g (from 1) of the input: two characters, or the last one alone
GroupOf(s, g) ==
  IF 2 * g <= Len(s) THEN <<s[2 * g - 1], s[2 * g]>> ELSE <<s[2 * g - 1]>>

\* block g (from 1) of a pattern: ten characters after the four of START
BlockOf(pattern, g) == Substring(pattern, 10 * g - 6, 10 * g + 4)

\* the table of the patterns of the digits 0 to 9
W ==
  << <<"1","1","2","2","1">>, <<"2","1","1","1","2">>,
     <<"1","2","1","1","2">>, <<"2","2","1","1","1">>,
     <<"1","1","2","1","2">>, <<"2","1","2","1","1">>,
     <<"1","2","2","1","1">>, <<"1","1","1","2","2">>,
     <<"2","1","1","2","1">>, <<"1","2","1","2","1">> >>

\* the digits (a, b) of a group: those of a pair, (0, d) for d alone
FirstOf(group) == IF Len(group) = 2 THEN DecimalValue(group[1]) ELSE 0
SecondOf(group) == DecimalValue(group[Len(group)])

\* C18: encode of a digit string of length n is a string over {'1','2'}
\* of length 4 + 10*ceil(n/2) + 3 that begins with '1111', ends with
\* '211' and has, in between, one 10-character block per group of the
\* input, in input order: block g is the block of group g encoded alone.
\* encode('') is '1111211'; 44 digits give 227 characters.
C18_EncodeFraming ==
  ret.op = "encode" =>
    LET n == Len(arg)
        out == ret.value
    IN  /\ Len(out) = 4 + 10 * Groups(n) + 3
        /\ \A k \in 1..Len(out) : out[k] \in {"1", "2"}
        /\ SubSeq(out, 1, 4) = <<"1","1","1","1">>
        /\ SubSeq(out, Len(out) - 2, Len(out)) = <<"2","1","1">>
        /\ \A g \in 1..Groups(n) :
             /\ Len(BlockOf(out, g)) = 10
             /\ BlockOf(out, g) = BlockOf(encode(GroupOf(arg, g)), 1)
        /\ n = 0 => out = <<"1","1","1","1","2","1","1">>
        /\ n = 44 => Len(out) = 227

C18_Witness ==
  /\ ret.op = "encode"
  /\ Len(arg) = 43
  /\ Len(ret.value) = 227

\* C19: in the block of every group, character 2i is W[a][i] and
\* character 2i+1 is W[b][i] for i in 0..4, (a, b) being the digits of the
\* pair, or (0, d) for a digit d alone at the end; encode('01') is
\* '1111' + '1211212112' + '211', encode('5') '1111' + '1211222111' + '211'.
C19_InterleavedBlock ==
  ret.op = "encode" =>
    /\ \A g \in 1..Groups(Len(arg)) :
         LET block == BlockOf(ret.value, g)
             a == FirstOf(GroupOf(arg, g))
             b == SecondOf(GroupOf(arg, g))
         IN  /\ Len(block) = 10
             /\ \A i \in 0..4 :
                  /\ block[2 * i + 1] = W[a + 1][i + 1]
                  /\ block[2 * i + 2] = W[b + 1][i + 1]
    /\ arg = <<"0","1">> =>
         ret.value = <<"1","1","1","1">> \o
                     <<"1","2","1","1","2","1","2","1","1","2">> \o
                     <<"2","1","1">>
    /\ arg = <<"5">> =>
         ret.value = <<"1","1","1","1">> \o
                     <<"1","2","1","1","2","2","2","1","1","1">> \o
                     <<"2","1","1">>

C19_Witness ==
  /\ ret.op = "encode"
  /\ arg = <<"3","8","7">>
  /\ BlockOf(ret.value, 1) = <<"2","2","2","1","1","1","1","2","1","1">>
  /\ BlockOf(ret.value, 2) = <<"1","1","1","1","2","1","2","2","1","2">>

----------------------------------------------------------------------------
(* The renderer *)

\* the elements a call of render has handed out: the one serialized into
\* the string returned, and the ones attached to the page
Rendered ==
  (IF ret.op = "render" /\ ret.value.kind = "string"
   THEN {ret.value.svg} ELSE {}) \cup
  UNION {{document[id][k] : k \in 1..Len(document[id])} :
         id \in DOMAIN document}

\* C20: render of a pattern of length L with unit width u makes exactly L
\* rectangles, in pattern order; rectangle i is '#000000' for i even and
\* '#ffffff' for i odd, has width u times the value of character i,
\* height 100 and y 0; the root has width '100%' and height '100%'.
C20_Rectangles ==
  \A element \in Rendered :
    /\ element.tag = "svg"
    /\ Len(element.children) = Len(arg)
    /\ \A i \in 0..(Len(arg) - 1) :
         LET rect == element.children[i + 1]
         IN  /\ rect.tag = "rect"
             /\ rect.fill = (IF i % 2 = 0 THEN "#000000" ELSE "#ffffff")
             /\ rect.width =
                  NumberToString(svg.stripeWidth * DecimalValue(arg[i + 1]))
             /\ rect.height = <<"1","0","0">>
             /\ rect.y = <<"0">>
    /\ element.width = <<"1","0","0","%">>
    /\ element.height = <<"1","0","0","%">>

C20_Witness ==
  /\ ret.op = "render"
  /\ ret.value.kind = "string"
  /\ arg = <<"1","2","2","1","2">>
  /\ svg.stripeWidth = 8
  /\ Len(ret.value.svg.children) = 5
  /\ ret.value.svg.children[5].width = <<"1","6">>
  /\ Len(document["barcode"]) = 1

\* the number a string of decimal digits writes
RECURSIVE ValueOf(_)
ValueOf(d) ==
  IF d = <<>> THEN 0
  ELSE 10 * ValueOf(SubSeq(d, 1, Len(d) - 1)) + DecimalValue(d[Len(d)])

\* the sum of the weights of a pattern
RECURSIVE SumOfWeights(_)
SumOfWeights(pattern) ==
  IF pattern = <<>> THEN 0
  ELSE DecimalValue(Head(pattern)) + SumOfWeights(Tail(pattern))

\* C21: the rectangles tile the horizontal axis from the left with no gap
\* and no overlap: x of rectangle 0 is 0, x of rectangle i+1 is x of
\* rectangle i plus its width, and the viewBox is '0 0 W 100' with W the
\* unit width times the sum of the weights, which is x plus width of the
\* last rectangle, and 0 for the empty pattern.
C21_Tiling ==
  \A element \in Rendered :
    LET rects == element.children
        L == Len(rects)
        total == svg.stripeWidth * SumOfWeights(arg)
    IN  /\ L > 0 => rects[1].x = <<"0">>
        /\ \A i \in 1..(L - 1) :
             ValueOf(rects[i + 1].x) =
               ValueOf(rects[i].x) + ValueOf(rects[i].width)
        /\ element.viewBox =
             <<"0"," ","0"," ">> \o NumberToString(total) \o
             <<" ","1","0","0">>
        /\ total = (IF L = 0 THEN 0
                    ELSE ValueOf(rects[L].x) + ValueOf(rects[L].width))

C21_Witness ==
  /\ ret.op = "render"
  /\ ret.value.kind = "string"
  /\ arg = <<"1","2","2","1","2">>
  /\ svg.stripeWidth = 8
  /\ ret.value.svg.children[5].x = <<"4","8">>
  /\ ret.value.svg.viewBox = <<"0"," ","0"," ","6","4"," ","1","0","0">>

----------------------------------------------------------------------------
(* The outcomes of render and toSVG *)

\* the call of render or toSVG a step makes, if it makes one
RenderCalls ==
  (IF ret'.op = "render" /\ (ret' # ret \/ document' # document)
   THEN {ret'} ELSE {}) \cup
  (IF result'.op = "toSVG" /\ (result' # result \/ document' # document)
   THEN {result'} ELSE {})

Resolves(selector) == selector.kind = "id" /\ selector.id \in DOMAIN document

\* one image more under the element, everything else as it was
AttachedOne(id) ==
  /\ DOMAIN document' = DOMAIN document
  /\ Len(document'[id]) = Len(document[id]) + 1
  /\ SubSeq(document'[id], 1, Len(document[id])) = document[id]
  /\ document'[id][Len(document'[id])].tag = "svg"
  /\ \A other \in DOMAIN document \ {id} : document'[other] = document[other]

ReturnsString(call) ==
  /\ ~call.threw
  /\ call.value.kind = "string"
  /\ call.value.svg.tag = "svg"

ReturnsNull(call) == ~call.threw /\ call.value.kind = "null"

----------------------------------------------------------------------------
(* Repeated calls and errors *)

\* the same accessor of the same instance called again; toSVG counts when
\* both calls are without selector
SameCallAgain ==
  /\ attempt' = attempt
  /\ result.op # "none"
  /\ result'.op = result.op
  /\ result'.inst = result.inst
  /\ result.op = "toSVG" =>
       /\ result.selector.kind = "undefined"
       /\ result'.selector.kind = "undefined"

\* C23: on a constructed instance an accessor called again returns what it
\* returned before, whatever was called in between, because no call of an
\* accessor changes anything it reads: the stored digit string of every
\* instance, the currency descriptor and the elements of the page stay as
\* they are, and toSVG without selector leaves the page alone.
C23_Idempotent ==
  [][/\ \A i \in Slots : Exists(i) => boleto'[i] = boleto[i]
     /\ attempt' = attempt =>
          /\ currencyObject' = currencyObject
          /\ DOMAIN document' = DOMAIN document
          /\ result'.op # "toSVG" => document' = document
          /\ (result'.op = "toSVG" /\ result'.selector.kind = "undefined")
               => document' = document
     /\ SameCallAgain =>
          /\ result'.value = result.value
          /\ result'.threw = result.threw]_vars

C23_Witness ==
  /\ result.op = "toSVG"
  /\ result.selector.kind = "undefined"
  /\ result.inst = "b"
  /\ Len(document["barcode"]) = 1
  /\ Exists("a")

----------------------------------------------------------------------------
(* Shared state, arrays and the check digit *)

\* C25 as stated: instances share no mutable state. Whatever calls were
\* made on any instance, and whatever a caller did with the values
\* returned, the currency descriptor is the one the program starts with,
\* and currency() and prettyAmount() of every instance return what they
\* return on an instance used alone.
C25_NoSharedState ==
  /\ currencyObject.code = <<"B","R","L">>
  /\ currencyObject.symbol = <<"R","$">>
  /\ currencyObject.decimal = <<",">>
  /\ (result.op = "currency" /\ result.value # Null) =>
       result.value.symbol = <<"R","$">>
  /\ result.op = "prettyAmount" =>
       LET s == boleto[result.inst].bankSlipNumber
       IN  BarcodeOf(s)[4] = "9" =>
             result.value = <<"R","$"," ">> \o AmountWith(s, <<",">>)

\* C26: modulo11 of the array of the digits of a string is modulo11 of the
\* string, and the array is left as it was passed: the same elements in
\* the same order.
C26_ArrayUnchanged ==
  ret.op = "modulo11OfArray" =>
    /\ ret.value = ret.ofString
    /\ ret.value = CheckDigit(ret.passed)
    /\ arg = ret.passed

C26_Witness ==
  /\ ret.op = "modulo11OfArray"
  /\ arg = REFERENCE_9
  /\ ret.value = 7

\* C28: for the other 46 digits fixed, exactly one digit at printed
\* position 32 (barcode offset 4) makes the construction succeed, and it is
\* never 0: at most one digit is accepted at any time, exactly one once
\* the ten have been tried, and checksum() of the instance accepted is that
\* digit, one of '1'..'9'.
C28_OneCheckDigit ==
  ret.op = "new" =>
    /\ Cardinality(ret.accepted) <= 1
    /\ ret.tried = 10 => Cardinality(ret.accepted) = 1
    /\ \A a \in ret.accepted :
         /\ a.digit \in {"1","2","3","4","5","6","7","8","9"}
         /\ a.checksum = <<a.digit>>
         /\ DecimalValue(a.digit) = CheckDigit(OtherBarcodeDigits(arg))

C28_Witness ==
  /\ ret.op = "new"
  /\ ret.tried = 10
  /\ arg = VALID_BOLETO_CLEAN
  /\ ret.accepted = {[digit |-> "1", checksum |-> <<"1">>]}

----------------------------------------------------------------------------
(* The group check digits, the weight of a barcode, the pattern read back *)

\* two printed numbers that differ at most at the group check digits
SameButGroupDigits(s, t) ==
  /\ Len(s) = 47
  /\ Len(t) = 47
  /\ \A k \in (1..47) \ {10, 21, 32} : s[k] = t[k]

\* C27: the check digits of the three groups (0-indexed 9, 20, 31) are
\* never examined. Two 47-digit strings that differ only there are both
\* accepted or both rejected; when accepted, barcode(), bank(), currency(),
\* checksum(), expirationDate(), amount(), prettyAmount() and toSVG() of
\* the one return what the same call just returned on the other.
C27_GroupDigitsIgnored ==
  [][/\ \A i, j \in Slots :
          (/\ attempt'[i].op = "new"
           /\ attempt'[j].op = "new"
           /\ SameButGroupDigits(attempt'[i].input, attempt'[j].input))
            => attempt'[i].threw = attempt'[j].threw
     /\ (/\ attempt' = attempt
         /\ result.op \in {"barcode", "bank", "currency", "checksum",
                           "expirationDate", "amount", "prettyAmount",
                           "toSVG"}
         /\ result'.op = result.op
         /\ result'.inst # result.inst
         /\ result.op = "toSVG" => result'.selector = result.selector
         /\ SameButGroupDigits(boleto[result.inst].bankSlipNumber,
                               boleto[result'.inst].bankSlipNumber))
          => result'.value = result.value]_vars

C27_Witness ==
  /\ result.op = "toSVG"
  /\ result.inst = "b"
  /\ result.selector.kind = "undefined"
  /\ Exists("a")
  /\ Exists("b")
  /\ boleto["a"].bankSlipNumber # boleto["b"].bankSlipNumber
  /\ SameButGroupDigits(boleto["a"].bankSlipNumber, boleto["b"].bankSlipNumber)

\* the images toSVG has handed out: serialized, or attached to the page
ImagesOfToSVG ==
  (IF result.op = "toSVG" /\ ~result.threw /\ result.value.kind = "string"
   THEN {result.value.svg} ELSE {}) \cup
  UNION {{document[id][k] : k \in 1..Len(document[id])} :
         id \in DOMAIN document}

\* C29: every entry of the weight table has two wide and three narrow
\* elements, so every block of a pair weighs 14; for every instance the
\* pattern of the barcode has 227 elements of total weight 316, and toSVG
\* makes 227 rectangles, 14 units of 4 from the start of one block to the
\* start of the next, under the viewBox '0 0 1264 100'.
C29_ConstantWeight ==
  /\ \A d \in 1..10 :
       /\ Len(DIGIT_WEIGHTS[d]) = 5
       /\ Cardinality({k \in 1..5 : DIGIT_WEIGHTS[d][k] = "2"}) = 2
       /\ Cardinality({k \in 1..5 : DIGIT_WEIGHTS[d][k] = "1"}) = 3
  /\ \A image \in ImagesOfToSVG :
       LET rects == image.children
       IN  /\ Len(rects) = 227
           /\ ValueOf(rects[227].x) + ValueOf(rects[227].width) = 316 * 4
           /\ \A g \in 1..22 :
                ValueOf(rects[10 * g + 5].x) - ValueOf(rects[10 * g - 5].x)
                  = 14 * 4
           /\ image.viewBox =
                <<"0"," ","0"," ","1","2","6","4"," ","1","0","0">>

C29_Witness ==
  /\ result.op = "toSVG"
  /\ result.value.kind = "string"
  /\ boleto[result.inst].bankSlipNumber = README_BOLETO_CLEAN
  /\ Len(document["barcode"]) = 1
  /\ Exists("a")
  /\ Exists("b")
  /\ boleto["a"].bankSlipNumber = VALID_BOLETO_CLEAN

\* the digit whose entry of the table a string of five elements is, 10 if
\* it is the entry of no digit
DigitOf(elements) ==
  IF \E d \in 0..9 : W[d + 1] = elements
  THEN CHOOSE d \in 0..9 : W[d + 1] = elements
  ELSE 10

\* digit k (from 1) read back from a pattern: the elements of its block at
\* the odd places for the first digit of a pair, at the even places for
\* the second
ReadBack(pattern, k) ==
  LET block == BlockOf(pattern, (k + 1) \div 2)
  IN  DigitOf([i \in 1..5 |-> block[2 * i - (k % 2)]])

\* C30: encode is injective on the digit strings of even length. The ten
\* entries of the weight table differ from one another and each pair has
\* its own block of ten elements, so the string is read back from the
\* pattern, digit by digit: two strings of even length with one pattern
\* are one string.
C30_EncodeInjective ==
  /\ \A a, b \in 1..10 : a # b => DIGIT_WEIGHTS[a] # DIGIT_WEIGHTS[b]
  /\ (ret.op = "encode" /\ Len(arg) % 2 = 0) =>
       /\ Len(ret.value) = 7 + 5 * Len(arg)
       /\ \A k \in 1..Len(arg) :
            ReadBack(ret.value, k) = DecimalValue(arg[k])

C30_Witness ==
  /\ ret.op = "encode"
  /\ arg = ITF_TEST_BARCODE
  /\ ReadBack(ret.value, 44) = 1
  /\ ReadBack(ret.value, 43) = 8

====
